---- MODULE Spec2Model ----
(***************************************************************************)
(* Model of the pattern-repository ingestion pipeline.                     *)
(*                                                                         *)
(* Part 1: scripts/utils/pdf_extractor.py - PDFExtractor.extract with its  *)
(* two backends (PyMuPDF, pdfplumber), the per-page OCR fallback, image    *)
(* extraction, and batch_extract.                                          *)
(*                                                                         *)
(* A document is described by what the libraries do on it: whether the     *)
(* path exists, whether the backend opens it, and for every page the kind  *)
(* of native text, the outcome of OCR and the outcome of every embedded    *)
(* image.  Strings are abstracted to their kind:                           *)
(*   "text"  a string with a non-whitespace character                      *)
(*   "blank" a non-empty string of whitespace only                         *)
(*   "empty" the empty string (or None, for pdfplumber)                    *)
(*   "throw" the library call raises                                       *)
(* Creating directories and writing files inside an existing directory do  *)
(* not raise; writing into a directory that does not exist does.           *)
(*                                                                         *)
(* Part 2: scripts/process/01_process_knitting_llms.py - the markdown      *)
(* parser parse_pattern_markdown, create_standardized_metadata,            *)
(* create_instructions_markdown, process_pattern, update_master_catalog    *)
(* and main.                                                               *)
(*                                                                         *)
(* A markdown line is described, after line.strip(), by the prefix the     *)
(* parser tests for and by what follows the prefix.  A piece of text is a  *)
(* sequence of words (the string is the words joined by one space; the     *)
(* empty sequence is the empty string).  Floats are written as the source  *)
(* writes them ("0.2").                                                    *)
(***************************************************************************)
EXTENDS Naturals, Sequences, FiniteSets, TLC

\* ---- bounds -------------------------------------------------------------
MaxPages == 2
MaxImages == 1
MaxDocs == 2
MaxLines == 5
MaxRuns == 2
MaxRecords == 2
MaxDirs == 2

\* ---- state ----------------------------------------------------------------
VARIABLES
  env,          \* import-time capability flags HAS_PYMUPDF, HAS_PDFPLUMBER, HAS_OCR
  args,         \* ocr_enabled given to __init__; extract_images, apply_ocr given to extract
  self,         \* the PDFExtractor object: self.ocr_enabled
  pc,           \* position of the extract call
  pdf,          \* what the call has learnt of the document: exists, opened, page count
  pages,        \* descriptors of the pages the loop has consumed, in order
  result,       \* the ExtractionResult object of the call
  all_text,     \* local list all_text
  image_count,  \* local counter image_count
  disk,         \* output directory: whether it exists, the text file, image file names
  ocr_calls,    \* page numbers on which _ocr_page was called
  logged,       \* logger.warning / logger.error records of the call, in order
  pdf_files,    \* batch_extract: the documents enumerated by glob
  results,      \* batch_extract: list results
  b_pc,         \* batch_extract: position
  md_file,      \* process_pattern: the markdown file and what lies next to it
  p_pc,         \* process_pattern: position of the call
  parser,       \* parse_pattern_markdown: pattern, current_section, current_row
  n_lines,      \* parse_pattern_markdown: number of lines the loop has consumed
  metadata,     \* process_pattern: local metadata
  processed,    \* REPO_ROOT/processed: the pattern directories and the index
  raw_dir,      \* main: RAW_DIR, whether it exists and the documents glob finds
  all_metadata, \* main / update_master_catalog: list all_metadata
  m_pc,         \* main: position; the number of documents the loop has taken
  stdout,       \* main: the documents named by "Processing:" lines, in order
  runs,         \* number of runs of main started so far
  embedder,     \* process_patterns: which of text_embedder, image_embedder are set
  skip_existing, \* process_patterns: argument skip_existing
  pattern_dirs, \* process_patterns: length of the listing, directories taken so far
  e_results,    \* process_patterns: dict results
  e_pc          \* process_patterns: position

callVars == <<pc, pdf, pages, result, all_text, image_count, disk, ocr_calls, logged>>
batchVars == <<pdf_files, results, b_pc>>
cfgVars == <<env, args, self>>
pdfVars == <<cfgVars, callVars, batchVars>>
procVars == <<md_file, p_pc, parser, n_lines, metadata>>
mainVars == <<raw_dir, all_metadata, m_pc, stdout, runs>>
mdVars == <<procVars, processed, mainVars>>
embedVars == <<embedder, skip_existing, pattern_dirs, e_results, e_pc>>
vars == <<env, args, self, pc, pdf, pages, result, all_text, image_count, disk,
          ocr_calls, logged, pdf_files, results, b_pc,
          md_file, p_pc, parser, n_lines, metadata, processed,
          raw_dir, all_metadata, m_pc, stdout, runs,
          embedder, skip_existing, pattern_dirs, e_results, e_pc>>

\* ---- input domains --------------------------------------------------------
NativeKinds == {"text", "blank", "empty", "throw"}
\* what pytesseract.image_to_string does on a page: visible text, a
\* whitespace-only string such as "\f" ("blank"), "" ("empty"), or it raises
OcrOutcomes == {"text", "blank", "empty", "throw"}
ImageOutcomes == {"ok", "bad"}

SeqsUpTo(S, n) == UNION {[1..k -> S] : k \in 0..n}

\* page.get_images() lists images, each of which extracts or not
ImageLists == SeqsUpTo(ImageOutcomes, MaxImages)

Envs == {e \in [HAS_PYMUPDF : BOOLEAN, HAS_PDFPLUMBER : BOOLEAN, HAS_OCR : BOOLEAN] :
           e.HAS_PYMUPDF \/ e.HAS_PDFPLUMBER}

Args == [ocr_enabled : BOOLEAN, extract_images : BOOLEAN, apply_ocr : BOOLEAN]

\* str.strip() of the text is empty
StripEmpty(t) == t \in {"blank", "empty"}

\* Python truthiness of a string
Truthy(t) == t # "empty"

\* ---- PDFExtractor.__init__ -------------------------------------------------
InitNoHasOcr(ocr_enabled, e) == [ocr_enabled |-> ocr_enabled]

PDFExtractorInit(ocr_enabled, e) == [ocr_enabled |-> ocr_enabled /\ e.HAS_OCR]

\* ---- ExtractionResult ------------------------------------------------------
NoErrors == <<>>

FileNotFoundResult(path) ==
  [pdf_path |-> path, total_pages |-> 0, text_extracted |-> FALSE,
   images_extracted |-> 0, ocr_applied |-> FALSE, text_file |-> "None",
   images_dir |-> "None", metadata |-> "None", errors |-> <<"File not found">>]

NewResult(path) ==
  [pdf_path |-> path, total_pages |-> 0, text_extracted |-> FALSE,
   images_extracted |-> 0, ocr_applied |-> FALSE, text_file |-> "None",
   images_dir |-> "None", metadata |-> "None", errors |-> NoErrors]

\* the except clause of extract: the result object as the callee left it,
\* with one error appended
ExceptKeepsErrorsEmpty(res) == res

ExceptResetsResult(res) ==
  [NewResult(res.pdf_path) EXCEPT !.errors = <<"Extraction failed">>]

ExtractExcept(res) == [res EXCEPT !.errors = Append(@, "Extraction failed")]

\* ---- the frame of one backend call ----------------------------------------
\* f.result, f.all_text, f.image_count, f.disk, f.ocr_calls, f.logged and
\* f.exc (an exception is propagating out of the backend function)
NoFile == [exists |-> FALSE, content |-> <<>>]

EmptyDisk == [out_dir |-> FALSE, text |-> NoFile, images |-> {}, batch_results |-> NoFile]

\* output_dir.mkdir(parents=True, exist_ok=True)
MakeOutputDir(dsk) == [dsk EXCEPT !.out_dir = TRUE]

NewFrame(path) ==
  [result |-> NewResult(path), all_text |-> <<>>, image_count |-> 0,
   disk |-> EmptyDisk, ocr_calls |-> {}, logged |-> <<>>, exc |-> FALSE]

\* the pieces of the extracted text: f"\n--- Page {n} ---\n", a page's text,
\* and the "\n" that join puts between two pieces
Marker(n) == [kind |-> "marker", page |-> n, text |-> "text", src |-> "none"]

PageText(n, t, src) == [kind |-> "text", page |-> n, text |-> t, src |-> src]

Newline == [kind |-> "nl", page |-> 0, text |-> "blank", src |-> "none"]

\* "\n".join(all_text)
RECURSIVE JoinNewline(_)
JoinNewline(s) ==
  IF Len(s) = 0 THEN <<>>
  ELSE IF Len(s) = 1 THEN s
  ELSE <<Head(s), Newline>> \o JoinNewline(Tail(s))

\* _ocr_page
OcrPage(e, p) ==
  IF ~e.HAS_OCR THEN [text |-> "empty", warned |-> FALSE]
  ELSE IF p.ocr = "throw" THEN [text |-> "empty", warned |-> TRUE]
  ELSE IF p.ocr \in {"text", "blank"} THEN [text |-> p.ocr, warned |-> FALSE]
  ELSE [text |-> "empty", warned |-> FALSE]

\* variants of the text step: ocr_applied set outside "if text", and the
\* marker appended outside "if text"
PymupdfTextFlagOnCall(f, p, n, slf, e, a) ==
  LET doOcr == StripEmpty(p.native) /\ a.apply_ocr /\ slf.ocr_enabled
      ocr == OcrPage(e, p)
      text == IF doOcr THEN ocr.text ELSE p.native
      src == IF doOcr THEN "ocr" ELSE "native"
  IN [f EXCEPT
        !.ocr_calls = IF doOcr THEN @ \cup {n} ELSE @,
        !.logged = IF doOcr /\ ocr.warned THEN Append(@, "OCR failed") ELSE @,
        !.result.ocr_applied = IF doOcr THEN TRUE ELSE @,
        !.all_text = IF Truthy(text)
                     THEN @ \o <<Marker(n), PageText(n, text, src)>>
                     ELSE @]

PymupdfTextMarkerAlways(f, p, n, slf, e, a) ==
  LET doOcr == StripEmpty(p.native) /\ a.apply_ocr /\ slf.ocr_enabled
      ocr == OcrPage(e, p)
      text == IF doOcr THEN ocr.text ELSE p.native
      src == IF doOcr THEN "ocr" ELSE "native"
  IN [f EXCEPT
        !.ocr_calls = IF doOcr THEN @ \cup {n} ELSE @,
        !.logged = IF doOcr /\ ocr.warned THEN Append(@, "OCR failed") ELSE @,
        !.result.ocr_applied = IF doOcr /\ Truthy(text) THEN TRUE ELSE @,
        !.all_text = IF Truthy(text)
                     THEN @ \o <<Marker(n), PageText(n, text, src)>>
                     ELSE Append(@, Marker(n))]

\* one iteration of the page loop of _extract_with_pymupdf; n is page_num + 1
PymupdfText(f, p, n, slf, e, a) ==
  LET doOcr == StripEmpty(p.native) /\ a.apply_ocr /\ slf.ocr_enabled
      ocr == OcrPage(e, p)
      text == IF doOcr THEN ocr.text ELSE p.native
      src == IF doOcr THEN "ocr" ELSE "native"
  IN [f EXCEPT
        !.ocr_calls = IF doOcr THEN @ \cup {n} ELSE @,
        !.logged = IF doOcr /\ ocr.warned THEN Append(@, "OCR failed") ELSE @,
        !.result.ocr_applied = IF doOcr /\ Truthy(text) THEN TRUE ELSE @,
        !.all_text = IF Truthy(text)
                     THEN @ \o <<Marker(n), PageText(n, text, src)>>
                     ELSE @]

\* the image loop of page n over the images from index k on
RECURSIVE PymupdfImages(_, _, _, _)
PymupdfImages(f, imgs, n, k) ==
  IF k > Len(imgs) THEN f
  ELSE IF imgs[k] = "ok"
       THEN PymupdfImages([f EXCEPT !.disk.images = @ \cup {<<n, k>>},
                                    !.image_count = @ + 1], imgs, n, k + 1)
       ELSE PymupdfImages([f EXCEPT !.logged = Append(@, "Failed to extract image")],
                          imgs, n, k + 1)

PymupdfPage(f, p, n, slf, e, a) ==
  IF p.native = "throw" THEN [f EXCEPT !.exc = TRUE]
  ELSE LET g == PymupdfText(f, p, n, slf, e, a)
       IN IF ~a.extract_images THEN g
          ELSE IF p.get_images = "throw" THEN [g EXCEPT !.exc = TRUE]
          ELSE PymupdfImages(g, p.images, n, 1)

\* fitz.open succeeded: total_pages, all_text, images_dir, image_count
PymupdfOpen(f, npages, a) ==
  [f EXCEPT !.result.total_pages = npages,
            !.result.images_dir = IF a.extract_images THEN "images" ELSE @]

\* after the loop: save the text, set images_extracted, extract metadata
SaveText(f) ==
  IF f.all_text # <<>>
  THEN [f EXCEPT !.disk.text = [exists |-> TRUE, content |-> JoinNewline(f.all_text)],
                 !.result.text_file = "text.txt",
                 !.result.text_extracted = TRUE]
  ELSE f

\* _extract_metadata_pymupdf: the cleaned map, or {} after a caught failure
ExtractMetadataPymupdf(f, meta_ok) ==
  IF meta_ok THEN [f EXCEPT !.result.metadata = "full"]
  ELSE [f EXCEPT !.result.metadata = "empty",
                 !.logged = Append(@, "Failed to extract metadata")]

PymupdfFinish(f, meta_ok) ==
  LET g == SaveText(f)
      h == [g EXCEPT !.result.images_extracted = g.image_count]
  IN ExtractMetadataPymupdf(h, meta_ok)

\* one iteration of the page loop of _extract_with_pdfplumber
PdfplumberPage(f, p, n) ==
  IF p.native = "throw" THEN [f EXCEPT !.exc = TRUE]
  ELSE [f EXCEPT !.all_text = IF Truthy(p.native)
                              THEN @ \o <<Marker(n), PageText(n, p.native, "native")>>
                              ELSE @]

PdfplumberOpen(f, npages) == [f EXCEPT !.result.total_pages = npages]

PdfplumberFinish(f, a) ==
  LET g == SaveText(f)
  IN IF a.extract_images
     THEN [g EXCEPT !.logged = Append(@, "Image extraction with pdfplumber is limited")]
     ELSE g

\* ---- extract, one call, page by page ---------------------------------------
DocPath == 1

NoPdf == [exists |-> TRUE, opened |-> FALSE, npages |-> 0]

Frame ==
  [result |-> result, all_text |-> all_text, image_count |-> image_count,
   disk |-> disk, ocr_calls |-> ocr_calls, logged |-> logged, exc |-> FALSE]

\* the pages a backend can meet: the OCR engine has an outcome on a page
\* without visible text when it is installed; embedded images are listed
\* when the rich backend is asked for them
PageInputs ==
  {p \in [native : NativeKinds, ocr : OcrOutcomes \cup {"none"},
          get_images : {"ok", "throw"}, images : ImageLists] :
     /\ (p.ocr # "none") <=> (StripEmpty(p.native) /\ env.HAS_OCR)
     /\ (p.get_images = "throw" \/ p.images # <<>>)
           => (env.HAS_PYMUPDF /\ args.extract_images /\ p.native # "throw")
     /\ p.get_images = "throw" => p.images = <<>>}

\* the backend function returned f, or left through the except clause of extract
Leave(f, next_pc) ==
  /\ all_text' = f.all_text
  /\ image_count' = f.image_count
  /\ disk' = f.disk
  /\ ocr_calls' = f.ocr_calls
  /\ IF f.exc
     THEN /\ result' = ExtractExcept(f.result)
          /\ logged' = Append(f.logged, "Failed to extract")
          /\ pc' = "returned"
     ELSE /\ result' = f.result
          /\ logged' = f.logged
          /\ pc' = next_pc

\* lines 117-125: the path does not exist
ExtractMissing ==
  /\ pc = "start"
  /\ pdf' = [pdf EXCEPT !.exists = FALSE]
  /\ result' = FileNotFoundResult(DocPath)
  /\ pc' = "returned"
  /\ UNCHANGED <<pages, all_text, image_count, disk, ocr_calls, logged>>
  /\ UNCHANGED <<cfgVars, batchVars, mdVars, embedVars>>

\* lines 127-139: output directory, fresh result
ExtractBegin ==
  /\ pc = "start"
  /\ disk' = MakeOutputDir(disk)
  /\ result' = NewResult(DocPath)
  /\ pc' = "open"
  /\ UNCHANGED <<pdf, pages, all_text, image_count, ocr_calls, logged>>
  /\ UNCHANGED <<cfgVars, batchVars, mdVars, embedVars>>

\* fitz.open / pdfplumber.open raises
OpenFails ==
  /\ pc = "open"
  /\ Leave([Frame EXCEPT !.exc = TRUE], "returned")
  /\ UNCHANGED <<pdf, pages>>
  /\ UNCHANGED <<cfgVars, batchVars, mdVars, embedVars>>

OpenPymupdf ==
  /\ pc = "open"
  /\ env.HAS_PYMUPDF
  /\ \E n \in 0..MaxPages :
       /\ pdf' = [pdf EXCEPT !.opened = TRUE, !.npages = n]
       /\ Leave(PymupdfOpen(Frame, n, args), "pages")
  /\ UNCHANGED pages
  /\ UNCHANGED <<cfgVars, batchVars, mdVars, embedVars>>

OpenPdfplumber ==
  /\ pc = "open"
  /\ ~env.HAS_PYMUPDF
  /\ \E n \in 0..MaxPages :
       /\ pdf' = [pdf EXCEPT !.opened = TRUE, !.npages = n]
       /\ Leave(PdfplumberOpen(Frame, n), "pages")
  /\ UNCHANGED pages
  /\ UNCHANGED <<cfgVars, batchVars, mdVars, embedVars>>

PagePymupdf ==
  /\ pc = "pages"
  /\ env.HAS_PYMUPDF
  /\ Len(pages) < pdf.npages
  /\ \E p \in PageInputs :
       /\ pages' = Append(pages, p)
       /\ Leave(PymupdfPage(Frame, p, Len(pages) + 1, self, env, args), "pages")
  /\ UNCHANGED pdf
  /\ UNCHANGED <<cfgVars, batchVars, mdVars, embedVars>>

PagePdfplumber ==
  /\ pc = "pages"
  /\ ~env.HAS_PYMUPDF
  /\ Len(pages) < pdf.npages
  /\ \E p \in PageInputs :
       /\ pages' = Append(pages, p)
       /\ Leave(PdfplumberPage(Frame, p, Len(pages) + 1), "pages")
  /\ UNCHANGED pdf
  /\ UNCHANGED <<cfgVars, batchVars, mdVars, embedVars>>

FinishPymupdf ==
  /\ pc = "pages"
  /\ env.HAS_PYMUPDF
  /\ Len(pages) = pdf.npages
  /\ \E meta_ok \in BOOLEAN : Leave(PymupdfFinish(Frame, meta_ok), "returned")
  /\ UNCHANGED <<pdf, pages>>
  /\ UNCHANGED <<cfgVars, batchVars, mdVars, embedVars>>

FinishPdfplumber ==
  /\ pc = "pages"
  /\ ~env.HAS_PYMUPDF
  /\ Len(pages) = pdf.npages
  /\ Leave(PdfplumberFinish(Frame, args), "returned")
  /\ UNCHANGED <<pdf, pages>>
  /\ UNCHANGED <<cfgVars, batchVars, mdVars, embedVars>>

\* the markdown pipeline before any of it has run
\* process_patterns of part 3 is not running
EmbedIdle ==
  /\ embedder = [text_embedder |-> FALSE, image_embedder |-> FALSE]
  /\ skip_existing = TRUE
  /\ pattern_dirs = [found |-> 0, taken |-> <<>>]
  /\ e_results = [processed |-> 0, skipped |-> 0, failed |-> 0, errors |-> <<>>]
  /\ e_pc = "idle"

MdIdle ==
  /\ md_file = <<>>
  /\ p_pc = "idle"
  /\ parser = <<>>
  /\ n_lines = 0
  /\ metadata = <<>>
  /\ processed = <<>>
  /\ raw_dir = <<>>
  /\ all_metadata = <<>>
  /\ m_pc = "idle"
  /\ stdout = <<>>
  /\ runs = 0

Init ==
  /\ env \in Envs
  /\ args \in Args
  /\ self = PDFExtractorInit(args.ocr_enabled, env)
  /\ pc = "start"
  /\ pdf = NoPdf
  /\ pages = <<>>
  /\ result = NewResult(DocPath)
  /\ all_text = <<>>
  /\ image_count = 0
  /\ disk = EmptyDisk
  /\ ocr_calls = {}
  /\ logged = <<>>
  /\ pdf_files = <<>>
  /\ results = <<>>
  /\ b_pc = "idle"
  /\ MdIdle
  /\ EmbedIdle

Next ==
  \/ ExtractMissing
  \/ ExtractBegin
  \/ OpenFails
  \/ OpenPymupdf
  \/ OpenPdfplumber
  \/ PagePymupdf
  \/ PagePdfplumber
  \/ FinishPymupdf
  \/ FinishPdfplumber

Spec == Init /\ [][Next]_vars

\* ---- extract as one function of the document ------------------------------
\* a whole document: d.exists, d.opens, d.pages, d.meta_ok
RECURSIVE PymupdfLoop(_, _, _, _, _, _)
PymupdfLoop(f, ps, n, slf, e, a) ==
  IF f.exc \/ n > Len(ps) THEN f
  ELSE PymupdfLoop(PymupdfPage(f, ps[n], n, slf, e, a), ps, n + 1, slf, e, a)

ExtractWithPymupdf(f, d, slf, e, a) ==
  LET g == PymupdfLoop(PymupdfOpen(f, Len(d.pages), a), d.pages, 1, slf, e, a)
  IN IF g.exc THEN g ELSE PymupdfFinish(g, d.meta_ok)

RECURSIVE PdfplumberLoop(_, _, _)
PdfplumberLoop(f, ps, n) ==
  IF f.exc \/ n > Len(ps) THEN f
  ELSE PdfplumberLoop(PdfplumberPage(f, ps[n], n), ps, n + 1)

ExtractWithPdfplumber(f, d, a) ==
  LET g == PdfplumberLoop(PdfplumberOpen(f, Len(d.pages)), d.pages, 1)
  IN IF g.exc THEN g ELSE PdfplumberFinish(g, a)

Extract(slf, e, a, path, d) ==
  IF ~d.exists THEN [NewFrame(path) EXCEPT !.result = FileNotFoundResult(path)]
  ELSE LET f0 == [NewFrame(path) EXCEPT !.disk = MakeOutputDir(@)]
           f == IF ~d.opens THEN [f0 EXCEPT !.exc = TRUE]
                   ELSE IF e.HAS_PYMUPDF THEN ExtractWithPymupdf(f0, d, slf, e, a)
                   ELSE ExtractWithPdfplumber(f0, d, a)
       IN IF f.exc
          THEN [f EXCEPT !.result = ExtractExcept(@),
                         !.logged = Append(@, "Failed to extract"),
                         !.exc = FALSE]
          ELSE f

\* ---- batch_extract -----------------------------------------------------------
TextPage == [native |-> "text", ocr |-> "none", get_images |-> "ok", images |-> <<>>]

ScanPage(o, imgs) == [native |-> "empty", ocr |-> o, get_images |-> "ok", images |-> imgs]

ThrowPage == [native |-> "throw", ocr |-> "none", get_images |-> "ok", images |-> <<>>]

Doc(ps, meta_ok) == [exists |-> TRUE, opens |-> TRUE, pages |-> ps, meta_ok |-> meta_ok]

DanglingDoc == [exists |-> FALSE, opens |-> FALSE, pages |-> <<>>, meta_ok |-> FALSE]

CorruptDoc == [exists |-> TRUE, opens |-> FALSE, pages |-> <<>>, meta_ok |-> FALSE]

\* the documents a directory may hold
BatchDocs ==
  {DanglingDoc, CorruptDoc,
   Doc(<<TextPage>>, TRUE),
   Doc(<<ScanPage("text", <<"ok">>)>>, TRUE),
   Doc(<<[TextPage EXCEPT !.images = <<"bad">>], ScanPage("throw", <<>>)>>, FALSE),
   Doc(<<TextPage, ThrowPage>>, TRUE)}

\* line 343 with the call it appends the result of
BatchAppend(rs, slf, e, a, path, d) == Append(rs, Extract(slf, e, a, path, d).result)

\* lines 339-343: one iteration of the loop over pdf_files; extract creates
\* pdf_output, and with it output_dir, for a path that exists, and logs its
\* warnings and errors, and enters _ocr_page on the pages its fallback takes
\* (ocr_calls gathers their page numbers over the documents); disk is
\* output_dir itself (the text and image files of the call lie in pdf_output
\* below it)
BatchExtract ==
  /\ b_pc = "loop"
  /\ Len(results) < Len(pdf_files)
  /\ LET i == Len(results) + 1
         call == Extract(self, env, args, i, pdf_files[i])
     IN /\ results' = BatchAppend(results, self, env, args, i, pdf_files[i])
        /\ disk' = [disk EXCEPT !.out_dir = @ \/ call.disk.out_dir]
        /\ logged' = logged \o call.logged
        /\ ocr_calls' = ocr_calls \cup call.ocr_calls
  /\ UNCHANGED <<pdf_files, b_pc>>
  /\ UNCHANGED <<cfgVars, pc, pdf, pages, result, all_text, image_count, mdVars, embedVars>>

\* lines 345-352: save batch_extraction_results.json and return results;
\* open(results_path, 'w') raises FileNotFoundError when output_dir is missing
BatchSave ==
  /\ b_pc = "loop"
  /\ Len(results) = Len(pdf_files)
  /\ IF disk.out_dir
     THEN /\ disk' = [disk EXCEPT !.batch_results =
                        [exists |-> TRUE, content |-> results]]
          /\ b_pc' = "done"
     ELSE /\ disk' = disk
          /\ b_pc' = "raised"
  /\ UNCHANGED <<pdf_files, results>>
  /\ UNCHANGED <<cfgVars, pc, pdf, pages, result, all_text, image_count, ocr_calls, logged, mdVars, embedVars>>

\* batch_extract constructs PDFExtractor() with its defaults; output_dir may
\* or may not exist when it is called
InitBatch ==
  /\ env \in Envs
  /\ args \in {a \in Args : a.ocr_enabled}
  /\ self = PDFExtractorInit(args.ocr_enabled, env)
  /\ pc = "idle"
  /\ pdf = NoPdf
  /\ pages = <<>>
  /\ result = NewResult(DocPath)
  /\ all_text = <<>>
  /\ image_count = 0
  /\ disk \in {EmptyDisk, MakeOutputDir(EmptyDisk)}
  /\ ocr_calls = {}
  /\ logged = <<>>
  /\ pdf_files \in SeqsUpTo(BatchDocs, MaxDocs)
  /\ results = <<>>
  /\ b_pc = "loop"
  /\ MdIdle
  /\ EmbedIdle

NextBatch ==
  \/ BatchExtract
  \/ BatchSave

SpecBatch == InitBatch /\ [][NextBatch]_vars

\* ==== Part 2: scripts/process/01_process_knitting_llms.py =====================

\* ---- markdown lines ---------------------------------------------------------
\* the content of a bullet: words, or the shape "Color {idx}: {name} ({hex})"
NoItem == [text |-> <<>>, idx |-> 0, name |-> "", hex |-> ""]
PlainItem(t) == [text |-> t, idx |-> 0, name |-> "", hex |-> ""]
ColorItem(i, name, hex) == [text |-> <<>>, idx |-> i, name |-> name, hex |-> hex]

\* a stripped line by the prefix the parser tests for
Ln(kind, key, text, words, num, item) ==
  [kind |-> kind, key |-> key, text |-> text, words |-> words, num |-> num, item |-> item]

\* "# " followed by text
TitleLine(t) == Ln("title", "", t, {}, 0, NoItem)
\* "- **key**:" followed by text
FieldLine(key, t) == Ln("field", key, t, {}, 0, NoItem)
\* "## " followed by a heading in which the keywords of words occur
Heading(words) == Ln("heading", "", <<>>, words, 0, NoItem)
\* "### Row" followed by: " " and the digits of n (key "int"), " " and more
\* digits than int() converts (key "long"), or anything else (key "none")
RowHeader(key, n) == Ln("row", key, <<>>, {}, n, NoItem)
\* "- " followed by a non-empty content that is no "**key**:" field
Bullet(item) == Ln("bullet", "", <<>>, {}, 0, item)
\* any other line that starts with "#"
HashLine == Ln("hash", "", <<>>, {}, 0, NoItem)
\* a line with none of these prefixes; the empty line is TextLine(<<>>)
TextLine(t) == Ln("text", "", t, {}, 0, NoItem)

\* words that start with "Work "
WorkWords == {"Work knit", "Work purl"}
StartsWithWork(line) ==
  line.kind = "text" /\ line.text # <<>> /\ Head(line.text) \in WorkWords

\* str.lower() on the words of the difficulty field
LowerWord(w) ==
  CASE w = "Beginner" -> "beginner"
    [] w = "Advanced" -> "advanced"
    [] OTHER -> w
Lower(t) == [k \in 1..Len(t) |-> LowerWord(t[k])]

\* str.strip('"') on the value of the prompt field
StripQuotes(t) == IF t = <<"\"cozy\"">> THEN <<"cozy">> ELSE t

\* re.match(r'(\d+)x(\d+)', size) followed by int() of both groups:
\* "int" with the two numbers, "long" when a group has more digits than int()
\* converts (it raises ValueError), "none" without a match
SizeMatchWidthOnly(size) ==
  IF size # <<>> /\ Head(size) = "2x3" THEN [match |-> "int", w |-> 2, h |-> 0]
  ELSE IF size # <<>> /\ Head(size) = "0x3" THEN [match |-> "int", w |-> 0, h |-> 0]
  ELSE IF size # <<>> /\ Head(size) = "99..99x3" THEN [match |-> "long", w |-> 0, h |-> 3]
  ELSE [match |-> "none", w |-> 0, h |-> 0]

SizeMatch(size) ==
  IF size # <<>> /\ Head(size) = "2x3" THEN [match |-> "int", w |-> 2, h |-> 3]
  ELSE IF size # <<>> /\ Head(size) = "0x3" THEN [match |-> "int", w |-> 0, h |-> 3]
  ELSE IF size # <<>> /\ Head(size) = "99..99x3" THEN [match |-> "long", w |-> 0, h |-> 3]
  ELSE [match |-> "none", w |-> 0, h |-> 0]

\* the headings, by the keywords that occur in them
HeadingWords ==
  {{"material"}, {"gauge"}, {"color"}, {"note"}, {"instruction"}, {"tip"},
   {"row", "tip"}, {}}

MaxRow == 2

\* the lines documents are made of
Lines ==
  {TitleLine(<<"Baby Blanket">>)}
  \cup {FieldLine("Model", <<"gpt2">>), FieldLine("Prompt", <<"\"cozy\"">>)}
  \cup {FieldLine("Size", t) : t \in {<<"2x3", "stitches">>, <<"0x3">>, <<"large">>, <<"99..99x3">>}}
  \cup {FieldLine("Difficulty", t) : t \in {<<"Beginner">>, <<"Advanced">>}}
  \cup {Heading(ws) : ws \in HeadingWords}
  \cup {RowHeader("int", n) : n \in 0..MaxRow}
  \cup {RowHeader("long", 0), RowHeader("none", 0)}
  \cup {Bullet(PlainItem(<<"yarn">>)), Bullet(ColorItem(1, "Light Blue", "#E3F2FD"))}
  \cup {TextLine(t) : t \in {<<>>, <<"Work knit">>, <<"5 sts">>}}
  \cup {HashLine}

\* ---- parse_pattern_markdown -------------------------------------------------
NewPattern ==
  [title |-> <<>>, model |-> <<>>, prompt |-> <<>>, size |-> <<>>,
   difficulty |-> <<>>, materials |-> <<>>, gauge |-> <<>>,
   color_scheme |-> <<>>, pattern_notes |-> <<>>, instructions |-> <<>>,
   tips |-> <<>>]

\* current_row: None, or the int of the last matching row header
NoRow == [set |-> FALSE, n |-> 0]
Row(n) == [set |-> TRUE, n |-> n]

ParserStart ==
  [pattern |-> NewPattern, current_section |-> "None", current_row |-> NoRow,
   exc |-> FALSE]

SectionTipFirst(words) ==
  IF "material" \in words THEN "materials"
  ELSE IF "gauge" \in words THEN "gauge"
  ELSE IF "color" \in words THEN "colors"
  ELSE IF "note" \in words THEN "notes"
  ELSE IF "tip" \in words THEN "tips"
  ELSE IF "instruction" \in words \/ "row" \in words THEN "instructions"
  ELSE "None"

\* the section a "## " heading selects
Section(words) ==
  IF "material" \in words THEN "materials"
  ELSE IF "gauge" \in words THEN "gauge"
  ELSE IF "color" \in words THEN "colors"
  ELSE IF "note" \in words THEN "notes"
  ELSE IF "instruction" \in words \/ "row" \in words THEN "instructions"
  ELSE IF "tip" \in words THEN "tips"
  ELSE "None"

ColorMatchAlways(item) == TRUE

\* re.match(r'Color \d+: (.+) \((#[A-Fa-f0-9]+)\)', content)
ColorMatch(item) == item.hex # ""

\* the "- " branch
ParseBullet(st, item) ==
  LET sec == st.current_section
      p == st.pattern
  IN  IF sec = "materials"
      THEN [st EXCEPT !.pattern.materials = Append(p.materials, item)]
      ELSE IF sec = "notes"
      THEN [st EXCEPT !.pattern.pattern_notes = Append(p.pattern_notes, item)]
      ELSE IF sec = "tips"
      THEN [st EXCEPT !.pattern.tips = Append(p.tips, item)]
      ELSE IF sec = "colors" /\ ColorMatch(item)
      THEN [st EXCEPT !.pattern.color_scheme =
                        Append(p.color_scheme, [name |-> item.name, hex |-> item.hex])]
      ELSE st

ParseRowHeaderSetsSection(st, line) ==
  IF line.key = "int"
  THEN [st EXCEPT !.current_row = Row(line.num), !.current_section = "instructions"]
  ELSE IF line.key = "long" THEN [st EXCEPT !.exc = TRUE]
  ELSE st

\* the "### Row" branch
ParseRowHeader(st, line) ==
  IF line.key = "int" THEN [st EXCEPT !.current_row = Row(line.num)]
  ELSE IF line.key = "long" THEN [st EXCEPT !.exc = TRUE]
  ELSE st

ParseInstructionAnyRow(st, line) ==
  IF st.current_row.set
  THEN [st EXCEPT !.pattern.instructions =
                    Append(st.pattern.instructions,
                           [row |-> st.current_row.n, instruction |-> line.text])]
  ELSE st

\* the "Work " branch under the instructions section
ParseInstruction(st, line) ==
  IF st.current_row.set /\ st.current_row.n # 0
  THEN [st EXCEPT !.pattern.instructions =
                    Append(st.pattern.instructions,
                           [row |-> st.current_row.n, instruction |-> line.text])]
  ELSE st

ParseFieldAlsoListed(st, line) ==
  LET listed == ParseBullet(st, PlainItem(line.text))
  IN  IF line.key = "Model" THEN [listed EXCEPT !.pattern.model = line.text]
      ELSE IF line.key = "Prompt"
      THEN [listed EXCEPT !.pattern.prompt = StripQuotes(line.text)]
      ELSE IF line.key = "Size" THEN [listed EXCEPT !.pattern.size = line.text]
      ELSE [listed EXCEPT !.pattern.difficulty = Lower(line.text)]

\* the "- **Model**:", "- **Prompt**:", "- **Size**:", "- **Difficulty**:" branches
ParseField(st, line) ==
  IF line.key = "Model" THEN [st EXCEPT !.pattern.model = line.text]
  ELSE IF line.key = "Prompt"
  THEN [st EXCEPT !.pattern.prompt = StripQuotes(line.text)]
  ELSE IF line.key = "Size" THEN [st EXCEPT !.pattern.size = line.text]
  ELSE [st EXCEPT !.pattern.difficulty = Lower(line.text)]

\* one iteration of the loop over the lines
ParseLine(st, line) ==
  LET p == st.pattern
  IN  IF line.kind = "title" THEN [st EXCEPT !.pattern.title = line.text]
      ELSE IF line.kind = "field" THEN ParseField(st, line)
      ELSE IF line.kind = "heading"
      THEN [st EXCEPT !.current_section = Section(line.words)]
      ELSE IF line.kind = "row" THEN ParseRowHeader(st, line)
      ELSE IF line.kind = "bullet" /\ st.current_section # "None"
      THEN ParseBullet(st, line.item)
      ELSE IF /\ st.current_section = "gauge"
              /\ line.kind = "text" /\ line.text # <<>>
      THEN [st EXCEPT !.pattern.gauge = p.gauge \o line.text]
      ELSE IF st.current_section = "instructions" /\ StartsWithWork(line)
      THEN ParseInstruction(st, line)
      ELSE st

\* the loop over md_content.split('\n'); an exception leaves the loop
RECURSIVE ParseLoop(_, _)
ParseLoop(st, lines) ==
  IF lines = <<>> \/ st.exc THEN st
  ELSE ParseLoop(ParseLine(st, Head(lines)), Tail(lines))

ParsePatternMarkdown(md_content) == ParseLoop(ParserStart, md_content)

\* ---- create_instructions_markdown -------------------------------------------
\* f"# {title}" once split and stripped again: "# " alone strips to "#"
FormatTitle(t) == IF t = <<>> THEN HashLine ELSE TitleLine(t)

\* f"- {content}" once split and stripped again: "- " alone strips to "-"
FormatBullet(item) == IF item = NoItem THEN TextLine(<<"-">>) ELSE Bullet(item)

\* f"**Row {row}:** {instruction}"
FormatRow(row_inst) ==
  TextLine(<<"**Row " \o ToString(row_inst.row) \o ":**">> \o row_inst.instruction)

GaugeDefault == <<"Gauge is not critical for this pattern.">>

RECURSIVE RowLines(_)
RowLines(rows) ==
  IF rows = <<>> THEN <<>>
  ELSE <<FormatRow(Head(rows)), TextLine(<<>>)>> \o RowLines(Tail(rows))

CreateInstructionsMarkdown(parsed) ==
  <<FormatTitle(parsed.title), TextLine(<<>>), Heading({"material"}), TextLine(<<>>)>>
  \o [k \in 1..Len(parsed.materials) |-> FormatBullet(parsed.materials[k])]
  \o <<TextLine(<<>>), Heading({"gauge"}),
       TextLine(IF parsed.gauge # <<>> THEN parsed.gauge ELSE GaugeDefault),
       TextLine(<<>>), Heading({"color"}), TextLine(<<>>)>>
  \o [k \in 1..Len(parsed.color_scheme) |->
        Bullet(ColorItem(k, parsed.color_scheme[k].name, parsed.color_scheme[k].hex))]
  \o <<TextLine(<<>>), Heading({"note"}), TextLine(<<>>)>>
  \o [k \in 1..Len(parsed.pattern_notes) |-> FormatBullet(parsed.pattern_notes[k])]
  \o <<TextLine(<<>>), Heading({"instruction"}), TextLine(<<>>)>>
  \o RowLines(parsed.instructions)
  \o <<TextLine(<<>>), Heading({"tip"}), TextLine(<<>>)>>
  \o [k \in 1..Len(parsed.tips) |-> FormatBullet(parsed.tips[k])]

\* ---- create_standardized_metadata -------------------------------------------
\* int() of a size group raises ValueError
MetadataRaises(parsed) ==
  parsed.size # <<>> /\ SizeMatch(parsed.size).match = "long"

\* parsed["title"] or f"Generated Pattern {pattern_id[:8]}"
MetadataTitle(parsed, pattern_id) ==
  IF parsed.title # <<>> THEN parsed.title
  ELSE <<"Generated", "Pattern", ToString(pattern_id)>>

MetadataDifficultyNoDefault(parsed) ==
  [level |-> parsed.difficulty,
   score |-> IF parsed.difficulty = <<"beginner">> THEN "0.2" ELSE "0.5"]

\* the "difficulty" object
MetadataDifficulty(parsed) ==
  [level |-> IF parsed.difficulty # <<>> THEN parsed.difficulty ELSE <<"beginner">>,
   score |-> IF parsed.difficulty = <<"beginner">> THEN "0.2" ELSE "0.5"]

\* pattern_id is the uuid4 of the call (a number stands for the string, and
\* for its first 8 characters); image_file is a path or "None"
CreateStandardizedMetadata(parsed, source_file, image_file, pattern_id) ==
  LET m == SizeMatch(parsed.size)
      matched == parsed.size # <<>> /\ m.match = "int"
      stitch_count == IF matched THEN m.w ELSE 0
      row_count == IF matched THEN m.h ELSE 0
  IN  [id |-> pattern_id,
       source |-> "knitting_llms",
       source_id |-> source_file,
       title |-> MetadataTitle(parsed, pattern_id),
       type |-> "knitting",
       category |-> "swatch",
       difficulty |-> MetadataDifficulty(parsed),
       techniques |->
         <<[name |-> "colorwork", complexity |-> "0.4",
            description |-> "Stranded colorwork"],
           [name |-> "stockinette", complexity |-> "0.1",
            description |-> "Basic stockinette stitch"]>>,
       materials |->
         [yarn_weight |-> "worsted", fiber_content |-> <<"acrylic", "wool">>,
          yardage |-> 50, needle_size |-> "US 7 / 4.5mm", needle_size_mm |-> "4.5",
          notions |-> <<"tapestry needle", "stitch markers">>,
          colors |-> parsed.color_scheme],
       gauge |->
         [stitches_per_inch |-> 5, stitches_per_10cm |-> 20, rows_per_inch |-> 7,
          rows_per_10cm |-> 28, swatch_size |-> "4x4 inches",
          pattern_used |-> "stockinette", raw_gauge |-> parsed.gauge],
       sizing |-> [available_sizes |-> <<"one size">>, size_range |-> parsed.size],
       instructions |->
         [format |-> "written", sections |-> <<"setup", "body">>,
          stitch_count |-> stitch_count, row_count |-> row_count,
          abbreviations_used |-> <<"k", "p">>, rows |-> parsed.instructions,
          notes |-> parsed.pattern_notes, tips |-> parsed.tips],
       images |-> [preview |-> IF image_file # "None" THEN "preview.png" ELSE "None",
                   chart |-> "None", swatches |-> <<>>],
       embeddings |-> [text_model |-> "None", image_model |-> "None",
                       text_vector_path |-> "None", image_vector_path |-> "None"],
       license |-> "mit",
       attribution |-> <<"Generated by">> \o parsed.model
                       \o <<"via knitting-llms project">>,
       date_added |-> "today",
       date_original |-> "2024",
       tags |-> <<"colorwork", "generated", "swatch", "beginner", "llm-generated">>,
       generation_metadata |-> [model |-> parsed.model, prompt |-> parsed.prompt],
       notes |-> <<"Pattern generated from LLM activation patterns. Prompt:">>
                 \o parsed.prompt \o <<"...">>]

\* ---- process_pattern --------------------------------------------------------
\* glob hands over "pattern_*.md" only: the number stem stands for the
\* file pattern_<stem>.md
Stem(stem) == "pattern_" \o ToString(stem)

\* md_file.stem.replace('_', ' ').title()
StemTitle(stem) == <<"Pattern", ToString(stem)>>

\* the title fallback
WithTitle(parsed, stem) ==
  IF parsed.title = <<>> THEN [parsed EXCEPT !.title = StemTitle(stem)] ELSE parsed

\* what lies next to the markdown file under its name with suffix .png:
\* nothing, a file shutil.copy copies, or an entry that exists and that
\* shutil.copy raises on (a directory, a file without read permission)
ImageKinds == {"none", "file", "uncopyable"}
\* image_file.exists()
HasImage(image) == image # "none"
ImageFile(stem, image) == IF HasImage(image) THEN stem ELSE "None"

\* REPO_ROOT/processed: whether it exists, its patterns/<id>/ directories in
\* the order they were made, and index/master_catalog.json
EmptyCatalog == [updated |-> "never", total_patterns |-> 0, sources |-> <<>>,
                 patterns |-> <<>>]
NoIndex == [exists |-> FALSE, catalog |-> EmptyCatalog]
EmptyProcessed == [dir |-> FALSE, patterns |-> <<>>, index |-> NoIndex]

\* RAW_DIR: whether it exists, and the documents glob finds in it
NoRawDir == [exists |-> FALSE, md_files |-> <<>>]

\* uuid.uuid4(): an identifier no directory carries
Uuid4(proc) == Len(proc.patterns) + 1

\* pattern_dir.mkdir(parents=True), metadata.json, instructions.md,
\* instructions_raw.txt (which holds md_content)
SaveFiles(proc, meta, parsed) ==
  [proc EXCEPT !.dir = TRUE, !.patterns =
     Append(proc.patterns,
            [id |-> meta.id, metadata_json |-> meta,
             instructions_md |-> CreateInstructionsMarkdown(parsed),
             instructions_raw |-> TRUE, preview |-> FALSE, embeddings |-> FALSE])]

\* shutil.copy(image_file, pattern_dir / "preview.png")
CopyImage(proc, id) == [proc EXCEPT !.patterns[id].preview = TRUE]

\* (pattern_dir / "embeddings").mkdir(exist_ok=True)
MakeEmbeddingsDir(proc, id) == [proc EXCEPT !.patterns[id].embeddings = TRUE]

\* the local metadata before it is assigned
NoMetadata == CreateStandardizedMetadata(NewPattern, "", "None", 0)

\* the file process_pattern is given, before anything is learnt of it
NoMdFile == [stem |-> 1, read |-> "ok", image |-> "none"]

\* the extractor of part 1 is not running
PdfIdle ==
  /\ env = [HAS_PYMUPDF |-> TRUE, HAS_PDFPLUMBER |-> TRUE, HAS_OCR |-> TRUE]
  /\ args = [ocr_enabled |-> TRUE, extract_images |-> TRUE, apply_ocr |-> TRUE]
  /\ self = PDFExtractorInit(args.ocr_enabled, env)
  /\ pc = "idle"
  /\ pdf = NoPdf
  /\ pages = <<>>
  /\ result = NewResult(DocPath)
  /\ all_text = <<>>
  /\ image_count = 0
  /\ disk = EmptyDisk
  /\ ocr_calls = {}
  /\ logged = <<>>
  /\ pdf_files = <<>>
  /\ results = <<>>
  /\ b_pc = "idle"

\* md_file.read_text() raises (the entry is a directory, or not UTF-8 text)
ReadRaises ==
  /\ p_pc = "start"
  /\ md_file' = [md_file EXCEPT !.read = "raise"]
  /\ p_pc' = "raised"
  /\ UNCHANGED <<parser, n_lines, metadata, processed, mainVars, pdfVars, embedVars>>

\* md_content = md_file.read_text(); the parser starts
ReadText ==
  /\ p_pc = "start"
  /\ p_pc' = "parse"
  /\ UNCHANGED <<md_file, parser, n_lines, metadata, processed, mainVars, pdfVars, embedVars>>

\* one more line of the document goes through the loop
ParseStep ==
  /\ p_pc = "parse"
  /\ n_lines < MaxLines
  /\ \E line \in Lines :
       /\ parser' = ParseLine(parser, line)
       /\ p_pc' = IF parser'.exc THEN "raised" ELSE "parse"
  /\ n_lines' = n_lines + 1
  /\ UNCHANGED <<md_file, metadata, processed, mainVars, pdfVars, embedVars>>

\* the document has no more lines: return pattern; then the title fallback,
\* image_file.exists() and create_standardized_metadata
Standardize ==
  /\ p_pc = "parse"
  /\ \E image \in ImageKinds :
       LET parsed == WithTitle(parser.pattern, md_file.stem)
       IN  /\ md_file' = [md_file EXCEPT !.image = image]
           /\ parser' = [parser EXCEPT !.pattern = parsed]
           /\ IF MetadataRaises(parsed)
              THEN p_pc' = "raised" /\ UNCHANGED metadata
              ELSE /\ p_pc' = "standardized"
                   /\ metadata' = CreateStandardizedMetadata(
                                    parsed, Stem(md_file.stem),
                                    ImageFile(Stem(md_file.stem), image),
                                    Uuid4(processed))
  /\ UNCHANGED <<n_lines, processed, mainVars, pdfVars, embedVars>>

\* the pattern directory with metadata.json, instructions.md, instructions_raw.txt
Save ==
  /\ p_pc = "standardized"
  /\ processed' = SaveFiles(processed, metadata, parser.pattern)
  /\ p_pc' = "saved"
  /\ UNCHANGED <<md_file, parser, n_lines, metadata, mainVars, pdfVars, embedVars>>

\* the image copy, when has_image, which may raise; the embeddings directory
Finish ==
  /\ p_pc = "saved"
  /\ IF md_file.image = "uncopyable"
     THEN p_pc' = "raised" /\ UNCHANGED processed
     ELSE /\ p_pc' = "returned"
          /\ processed' =
               MakeEmbeddingsDir(
                 IF HasImage(md_file.image) THEN CopyImage(processed, metadata.id)
                 ELSE processed,
                 metadata.id)
  /\ UNCHANGED <<md_file, parser, n_lines, metadata, mainVars, pdfVars, embedVars>>

InitProcess ==
  /\ PdfIdle
  /\ md_file = NoMdFile
  /\ p_pc = "start"
  /\ parser = ParserStart
  /\ n_lines = 0
  /\ metadata = NoMetadata
  /\ processed = EmptyProcessed
  /\ raw_dir = NoRawDir
  /\ all_metadata = <<>>
  /\ m_pc = "idle"
  /\ stdout = <<>>
  /\ runs = 0
  /\ EmbedIdle

NextProcess ==
  \/ ReadRaises
  \/ ReadText
  \/ ParseStep
  \/ Standardize
  \/ Save
  \/ Finish

SpecProcess == InitProcess /\ [][NextProcess]_vars

\* ---- update_master_catalog --------------------------------------------------
\* meta.get("source", "unknown")
MetaSource(meta) == IF "source" \in DOMAIN meta THEN meta.source ELSE "unknown"

\* catalog["sources"][source] = catalog["sources"].get(source, 0) + 1
CountSource(sources, source) ==
  [s \in DOMAIN sources \cup {source} |->
     IF s = source THEN (IF s \in DOMAIN sources THEN sources[s] ELSE 0) + 1
     ELSE sources[s]]

\* the summary appended for one record
Summary(meta) ==
  [id |-> meta.id, title |-> meta.title, source |-> MetaSource(meta),
   type |-> meta.type,
   category |-> IF "category" \in DOMAIN meta THEN meta.category ELSE "None",
   difficulty |-> IF "difficulty" \in DOMAIN meta /\ "level" \in DOMAIN meta.difficulty
                  THEN meta.difficulty.level ELSE "None",
   path |-> "patterns/" \o ToString(meta.id)]

CatalogAddNoCount(catalog, meta) ==
  [catalog EXCEPT !.sources = [s \in DOMAIN catalog.sources \cup {MetaSource(meta)} |-> 1],
                  !.patterns = Append(catalog.patterns, Summary(meta))]

\* one iteration of the loop over all_metadata
CatalogAdd(catalog, meta) ==
  [catalog EXCEPT !.sources = CountSource(catalog.sources, MetaSource(meta)),
                  !.patterns = Append(catalog.patterns, Summary(meta))]

RECURSIVE CatalogLoop(_, _)
CatalogLoop(catalog, metas) ==
  IF metas = <<>> THEN catalog
  ELSE CatalogLoop(CatalogAdd(catalog, Head(metas)), Tail(metas))

\* the dict catalog json.dump writes
BuildCatalog(metas) ==
  CatalogLoop([updated |-> "now", total_patterns |-> Len(metas),
               sources |-> <<>>, patterns |-> <<>>], metas)

\* catalog_dir.mkdir(exist_ok=True) has no parents=True: it raises when
\* REPO_ROOT/processed does not exist
CatalogRaises(proc) == ~proc.dir

UpdateMasterCatalog(proc, metas) ==
  [proc EXCEPT !.index = [exists |-> TRUE, catalog |-> BuildCatalog(metas)]]

\* ---- update_master_catalog on its own ------------------------------------------
\* canonical records that differ in what the catalog reads
Titles == {<<"Baby Blanket">>, <<"Pattern", "1">>}
Sources == {"knitting_llms", "ravelry"}
CatalogRecords ==
  {[NoMetadata EXCEPT !.id = i, !.title = t, !.source = s] :
     i \in 1..MaxRecords, t \in Titles, s \in Sources}

CatalogWrite ==
  /\ m_pc = "catalog"
  /\ ~CatalogRaises(processed)
  /\ processed' = UpdateMasterCatalog(processed, all_metadata)
  /\ m_pc' = "done"
  /\ UNCHANGED <<procVars, raw_dir, all_metadata, stdout, runs, pdfVars, embedVars>>

CatalogFails ==
  /\ m_pc = "catalog"
  /\ CatalogRaises(processed)
  /\ m_pc' = "raised"
  /\ UNCHANGED <<procVars, processed, raw_dir, all_metadata, stdout, runs, pdfVars, embedVars>>

InitCatalog ==
  /\ PdfIdle
  /\ md_file = NoMdFile
  /\ p_pc = "idle"
  /\ parser = ParserStart
  /\ n_lines = 0
  /\ metadata = NoMetadata
  /\ processed \in {EmptyProcessed, [EmptyProcessed EXCEPT !.dir = TRUE]}
  /\ raw_dir = NoRawDir
  /\ all_metadata \in SeqsUpTo(CatalogRecords, MaxRecords)
  /\ m_pc = "catalog"
  /\ stdout = <<>>
  /\ runs = 0
  /\ EmbedIdle

NextCatalog ==
  \/ CatalogWrite
  \/ CatalogFails

SpecCatalog == InitCatalog /\ [][NextCatalog]_vars

\* ---- process_pattern as one step --------------------------------------------
\* the outcome of process_pattern(md_file) on the tree proc: the tree it
\* leaves, whether it returned, and the metadata it returned
ProcessPattern(doc, proc) ==
  LET st == ParsePatternMarkdown(doc.lines)
      parsed == WithTitle(st.pattern, doc.stem)
      meta == CreateStandardizedMetadata(parsed, Stem(doc.stem),
                                         ImageFile(Stem(doc.stem), doc.image), Uuid4(proc))
      saved == SaveFiles(proc, meta, parsed)
      copied == IF HasImage(doc.image) THEN CopyImage(saved, meta.id) ELSE saved
  IN  IF doc.read = "raise" \/ st.exc \/ MetadataRaises(parsed)
      THEN [proc |-> proc, returned |-> FALSE, metadata |-> NoMetadata]
      ELSE IF doc.image = "uncopyable"
      THEN [proc |-> saved, returned |-> FALSE, metadata |-> NoMetadata]
      ELSE [proc |-> MakeEmbeddingsDir(copied, meta.id), returned |-> TRUE,
            metadata |-> meta]

\* ---- main -------------------------------------------------------------------
\* documents of RAW_DIR, named pattern_<stem>.md
MdDoc(stem, read, lines, image) ==
  [stem |-> stem, read |-> read, lines |-> lines, image |-> image]

RowsDoc ==
  <<TitleLine(<<"Baby Blanket">>), Heading({"instruction"}), RowHeader("int", 1),
    TextLine(<<"Work knit">>)>>

\* one that is processed and has an image, one that is processed and has
\* none, one that read_text raises on, one whose image cannot be copied
MainDocs ==
  {MdDoc(1, "ok", RowsDoc, "file"), MdDoc(2, "ok", <<>>, "none"),
   MdDoc(3, "raise", <<>>, "none"), MdDoc(4, "ok", RowsDoc, "uncopyable")}

\* RAW_DIR.glob("pattern_*.md"): every file once, in the order of the listing
Globs ==
  {fs \in SeqsUpTo(MainDocs, MaxDocs) :
     \A i, j \in 1..Len(fs) : i # j => fs[i].stem # fs[j].stem}

\* main finds no RAW_DIR and returns 1
MainNoRawDir ==
  /\ m_pc \in {"idle", "done", "returned 1"}
  /\ runs < MaxRuns
  /\ runs' = runs + 1
  /\ raw_dir' = NoRawDir
  /\ m_pc' = "returned 1"
  /\ stdout' = <<>>
  /\ UNCHANGED <<procVars, processed, all_metadata, pdfVars, embedVars>>

\* main lists RAW_DIR and enters the loop
MainStart ==
  /\ m_pc \in {"idle", "done", "returned 1"}
  /\ runs < MaxRuns
  /\ runs' = runs + 1
  /\ \E fs \in Globs : raw_dir' = [exists |-> TRUE, md_files |-> fs]
  /\ all_metadata' = <<>>
  /\ stdout' = <<>>
  /\ m_pc' = "loop"
  /\ UNCHANGED <<procVars, processed, pdfVars, embedVars>>

MainProcessNoExcept ==
  /\ m_pc = "loop"
  /\ Len(stdout) < Len(raw_dir.md_files)
  /\ LET doc == raw_dir.md_files[Len(stdout) + 1]
         r == ProcessPattern(doc, processed)
     IN  /\ stdout' = Append(stdout, doc.stem)
         /\ processed' = r.proc
         /\ all_metadata' = IF r.returned THEN Append(all_metadata, r.metadata)
                            ELSE all_metadata
         /\ m_pc' = IF r.returned THEN m_pc ELSE "raised"
  /\ UNCHANGED <<procVars, raw_dir, runs, pdfVars, embedVars>>

\* one iteration of the loop over md_files: try process_pattern, except Exception
MainProcess ==
  /\ m_pc = "loop"
  /\ Len(stdout) < Len(raw_dir.md_files)
  /\ LET doc == raw_dir.md_files[Len(stdout) + 1]
         r == ProcessPattern(doc, processed)
     IN  /\ stdout' = Append(stdout, doc.stem)
         /\ processed' = r.proc
         /\ all_metadata' = IF r.returned THEN Append(all_metadata, r.metadata)
                            ELSE all_metadata
  /\ UNCHANGED <<procVars, raw_dir, m_pc, runs, pdfVars, embedVars>>

\* after the loop: if all_metadata: update_master_catalog(all_metadata); return 0
MainCatalog ==
  /\ m_pc = "loop"
  /\ Len(stdout) = Len(raw_dir.md_files)
  /\ processed' = IF all_metadata # <<>>
                  THEN UpdateMasterCatalog(processed, all_metadata)
                  ELSE processed
  /\ m_pc' = "done"
  /\ UNCHANGED <<procVars, raw_dir, all_metadata, stdout, runs, pdfVars, embedVars>>

InitMain ==
  /\ PdfIdle
  /\ md_file = NoMdFile
  /\ p_pc = "idle"
  /\ parser = ParserStart
  /\ n_lines = 0
  /\ metadata = NoMetadata
  /\ processed = EmptyProcessed
  /\ raw_dir = NoRawDir
  /\ all_metadata = <<>>
  /\ m_pc = "idle"
  /\ stdout = <<>>
  /\ runs = 0
  /\ EmbedIdle

NextMain ==
  \/ MainNoRawDir
  \/ MainStart
  \/ MainProcess
  \/ MainCatalog

SpecMain == InitMain /\ [][NextMain]_vars

\* ==== Part 3: scripts/process/05_generate_embeddings.py ========================

\* ---- pattern directories ---------------------------------------------------------
\* result of embed_pattern before anything is embedded; called: the function
\* was entered for the directory
NoEmbedResult ==
  [called |-> FALSE, text_embedding |-> "None", image_embedding |-> "None",
   errors |-> <<>>]

\* a pattern directory as the loop meets it:
\* metadata_json: json.load reads metadata.json ("ok") or raises ("invalid");
\* mkdir: embeddings_dir.mkdir(exist_ok=True) succeeds ("ok") or raises
\*   ("raise": "embeddings" exists as a file);
\* text_embed, image_embed: embeddings/text_embed.npy and
\*   embeddings/image_embed.npy exist when the loop meets it;
\* text: _get_text_content returns None ("none") or raises ("escape": an
\*   instructions.md that cannot be read, metadata of another shape), or
\*   embedding and saving the text succeeds ("ok") or raises ("raise");
\* image: _get_image_path finds no image ("none") or raises ("escape": a
\*   preview that is no string), the image is embedded and saved ("ok"),
\*   ImageEmbedder.embed returns None ("unreadable"), or np.save raises
\*   ("raise");
\* result: what embed_pattern has put in its result, with the paths of the
\*   files np.save wrote
PatternDir(meta, mkdir, text_embed, image_embed, text, image) ==
  [metadata_json |-> meta, mkdir |-> mkdir, text_embed |-> text_embed,
   image_embed |-> image_embed, text |-> text, image |-> image,
   result |-> NoEmbedResult]

\* skip_existing and one of the two embedding files exists
AlreadyEmbedded(d, skip) == skip /\ (d.text_embed \/ d.image_embed)

\* the directories an embedder can meet: outcomes are those of the steps
\* that are reached, and a file "embeddings" holds no embedding
DirInputs(emb, skip) ==
  {d \in {PatternDir(meta, mkdir, te, ie, text, image) :
            meta \in {"ok", "invalid"}, mkdir \in {"ok", "raise"},
            te \in BOOLEAN, ie \in BOOLEAN,
            text \in {"none", "ok", "raise", "escape"},
            image \in {"none", "ok", "unreadable", "raise", "escape"}} :
     /\ (AlreadyEmbedded(d, skip) \/ d.metadata_json = "invalid")
           => (d.mkdir = "ok" /\ d.text = "none" /\ d.image = "none")
     /\ d.mkdir = "raise" =>
           (~d.text_embed /\ ~d.image_embed /\ d.text = "none" /\ d.image = "none")
     /\ d.text = "escape" => d.image = "none"
     /\ d.text # "none" => emb.text_embedder
     /\ d.image # "none" => emb.image_embedder}

\* ---- PatternEmbedder.embed_pattern -------------------------------------------------
\* the directory as a step leaves it, and exc: an exception leaves the call
Embedded(d, exc) == [dir |-> d, exc |-> exc]

\* "Generate text embedding": _get_text_content stands before the try
EmbedText(emb, d) ==
  IF ~emb.text_embedder \/ d.text = "none" THEN Embedded(d, FALSE)
  ELSE IF d.text = "escape" THEN Embedded(d, TRUE)
  ELSE IF d.text = "ok"
  THEN Embedded([d EXCEPT !.result.text_embedding = "text_embed.npy"], FALSE)
  ELSE Embedded([d EXCEPT !.result.errors = Append(@, "Text embedding failed")], FALSE)

\* "Generate image embedding": _get_image_path stands before the try
EmbedImage(emb, d) ==
  IF ~emb.image_embedder \/ d.image \in {"none", "unreadable"} THEN Embedded(d, FALSE)
  ELSE IF d.image = "escape" THEN Embedded(d, TRUE)
  ELSE IF d.image = "ok"
  THEN Embedded([d EXCEPT !.result.image_embedding = "image_embed.npy"], FALSE)
  ELSE Embedded([d EXCEPT !.result.errors = Append(@, "Image embedding failed")], FALSE)

EmbedPattern(emb, d) ==
  LET entered == [d EXCEPT !.result.called = TRUE]
  IN  IF d.metadata_json = "missing"
      THEN Embedded([entered EXCEPT !.result.errors = <<"No metadata.json found">>],
                    FALSE)
      ELSE IF d.metadata_json = "invalid" \/ d.mkdir = "raise"
      THEN Embedded(entered, TRUE)
      ELSE LET t == EmbedText(emb, entered)
           IN  IF t.exc THEN t ELSE EmbedImage(emb, t.dir)

\* ---- process_patterns ---------------------------------------------------------------
NewResults == [processed |-> 0, skipped |-> 0, failed |-> 0, errors |-> <<>>]

\* the body of the loop for directory d: rs is the summary and exc tells
\* that an exception leaves process_patterns
ProcessDir(emb, skip, rs, d) ==
  IF AlreadyEmbedded(d, skip)
  THEN [results |-> [rs EXCEPT !.skipped = @ + 1], dir |-> d, exc |-> FALSE]
  ELSE LET e == EmbedPattern(emb, d)
       IN  [results |->
              IF e.exc THEN rs
              ELSE IF e.dir.result.errors # <<>>
              THEN [rs EXCEPT !.failed = @ + 1,
                              !.errors = @ \o e.dir.result.errors]
              ELSE [rs EXCEPT !.processed = @ + 1],
            dir |-> e.dir, exc |-> e.exc]

\* patterns_dir.iterdir() raises: patterns_dir is no directory
ListRaises ==
  /\ e_pc = "start"
  /\ e_pc' = "no patterns_dir"
  /\ UNCHANGED <<embedder, skip_existing, pattern_dirs, e_results, pdfVars, mdVars>>

\* embedder, results and the listing pattern_dirs, of found directories
ListPatternDirs ==
  /\ e_pc = "start"
  /\ \E n \in 0..MaxDirs : pattern_dirs' = [found |-> n, taken |-> <<>>]
  /\ e_results' = NewResults
  /\ e_pc' = "loop"
  /\ UNCHANGED <<embedder, skip_existing, pdfVars, mdVars>>

\* one iteration of the loop over pattern_dirs
ProcessNextDir ==
  /\ e_pc = "loop"
  /\ Len(pattern_dirs.taken) < pattern_dirs.found
  /\ \E d \in DirInputs(embedder, skip_existing) :
       LET r == ProcessDir(embedder, skip_existing, e_results, d)
       IN  /\ pattern_dirs' = [pattern_dirs EXCEPT !.taken = Append(@, r.dir)]
           /\ e_results' = r.results
           /\ e_pc' = IF r.exc THEN "raised" ELSE "loop"
  /\ UNCHANGED <<embedder, skip_existing, pdfVars, mdVars>>

\* return results
ProcessReturn ==
  /\ e_pc = "loop"
  /\ Len(pattern_dirs.taken) = pattern_dirs.found
  /\ e_pc' = "returned"
  /\ UNCHANGED <<embedder, skip_existing, pattern_dirs, e_results, pdfVars, mdVars>>

InitEmbed ==
  /\ PdfIdle
  /\ MdIdle
  /\ embedder \in [text_embedder : BOOLEAN, image_embedder : BOOLEAN]
  /\ skip_existing \in BOOLEAN
  /\ pattern_dirs = [found |-> 0, taken |-> <<>>]
  /\ e_results = NewResults
  /\ e_pc = "start"

NextEmbed ==
  \/ ListRaises
  \/ ListPatternDirs
  \/ ProcessNextDir
  \/ ProcessReturn

SpecEmbed == InitEmbed /\ [][NextEmbed]_vars

\* ---- properties of extract ----------------------------------------------------
\* get_text / extract_text of page n returned
TextExtracted(n) == n <= Len(pages) /\ pages[n].native # "throw"

\* the text of page n after the OCR fallback, as the engine delivered it
FinalText(n) ==
  IF n \in ocr_calls
  THEN (IF env.HAS_OCR /\ pages[n].ocr \in {"text", "blank"} THEN pages[n].ocr
        ELSE "empty")
  ELSE pages[n].native

\* a step of page n raised: its text, its image listing, one of its images, its OCR
PageFailed(n) ==
  /\ n <= Len(pages)
  /\ \/ pages[n].native = "throw"
     \/ pages[n].get_images = "throw"
     \/ \E k \in 1..Len(pages[n].images) : pages[n].images[k] = "bad"
     \/ n \in ocr_calls /\ pages[n].ocr = "throw"

\* the failures the page loop caught itself
CaughtWarnings == {"OCR failed", "Failed to extract image"}

CaughtFailures == Cardinality({i \in 1..Len(logged) : logged[i] \in CaughtWarnings})

\* the page numbers of the markers of a text, in order
RECURSIVE Markers(_)
Markers(s) ==
  IF s = <<>> THEN <<>>
  ELSE IF Head(s).kind = "marker" THEN <<Head(s).page>> \o Markers(Tail(s))
  ELSE Markers(Tail(s))

\* the call returned after running the backend to its end
Completed == pc = "returned" /\ pdf.opened /\ result.errors = <<>>

\* C1: a document that cannot be opened (the path does not exist, or the
\* backend's open raises) makes extract return, not raise, a result with
\* total_pages = 0, ocr_applied = FALSE, images_extracted = 0 and exactly one
\* error string.
C1_UnopenableReturnsOneError ==
  /\ pc \in {"start", "open", "pages", "returned"}
  /\ (pc = "returned" /\ ~pdf.opened) =>
       /\ result.total_pages = 0
       /\ ~result.ocr_applied
       /\ result.images_extracted = 0
       /\ Len(result.errors) = 1

C1_Witness == pc = "returned" /\ pdf.exists /\ ~pdf.opened /\ Len(logged) = 1

\* C2: once the backend has opened the document, total_pages is the page
\* count it reported, in every later state of the call, also after a page
\* raised and the extraction was cut short.
C2_TotalPagesIsReportedCount == pdf.opened => result.total_pages = pdf.npages

C2_Witness ==
  /\ pc = "returned"
  /\ pdf.opened
  /\ pdf.npages = 2
  /\ result.errors # <<>>
  /\ result.total_pages = 2

\* C3 (as claimed): when a step of page i raises, every page j > i still has
\* its text extracted and the text file is written from the pages that
\* produced text.
C3_PageFailureDoesNotStopLoop ==
  (pc = "returned" /\ pdf.opened) =>
     \A i \in 1..Len(pages) :
        PageFailed(i) =>
          /\ \A j \in (i + 1)..pdf.npages : TextExtracted(j)
          /\ all_text # <<>> => disk.text.exists

\* C4 (as claimed): every failure caught inside the page loop appends one
\* entry to the errors of the result.
C4_CaughtFailuresAreInErrors ==
  pc = "returned" => Len(result.errors) >= CaughtFailures

\* C5: _ocr_page is called on a page only when the page's native text is
\* empty or whitespace, apply_ocr is true, the extractor was constructed with
\* ocr_enabled true and the OCR libraries are installed; while every page seen
\* has visible native text, OCR has not been called and ocr_applied is false.
C5_OcrOnlyOnBlankPagesWhenEnabled ==
  /\ \A n \in ocr_calls :
        /\ n \in 1..Len(pages)
        /\ StripEmpty(pages[n].native)
        /\ args.apply_ocr
        /\ args.ocr_enabled
        /\ env.HAS_OCR
  /\ (\A n \in 1..Len(pages) : pages[n].native = "text") =>
        (ocr_calls = {} /\ ~result.ocr_applied)

C5_Witness ==
  /\ pc = "returned"
  /\ Len(pages) = 2
  /\ pages[1].native = "text"
  /\ pages[2].native = "blank"
  /\ ocr_calls = {2}
  /\ result.ocr_applied

\* every page consumed so far had empty or whitespace-only native text
AllScanned == \A n \in 1..Len(pages) : StripEmpty(pages[n].native)

OcrOn == env.HAS_OCR /\ args.ocr_enabled /\ args.apply_ocr

\* the pages on which _ocr_page ran and returned a non-empty string
OcrTextPages == {n \in ocr_calls : pages[n].ocr \in {"text", "blank"}}

InText(piece) == \E i \in 1..Len(disk.text.content) : disk.text.content[i] = piece

\* C6 (as claimed, on the rich backend): when every page has empty native
\* text and OCR is enabled and available, the result has ocr_applied = TRUE
\* and text was extracted.
C6_ScannedDocumentGetsOcrText ==
  (Completed /\ env.HAS_PYMUPDF /\ pdf.npages >= 1 /\ AllScanned /\ OcrOn) =>
     (result.ocr_applied /\ result.text_extracted)

\* C6 (amended): for a document whose pages all have empty native text, with
\* OCR enabled and available, ocr_applied is TRUE exactly when _ocr_page ran
\* and returned a non-empty string (a whitespace-only one included) for at
\* least one page; when the call
\* completes and there is such a page, text was extracted and the saved text
\* holds the OCR text of exactly those pages, and a page whose OCR returned
\* nothing or raised has no marker in it.
C6_OcrAppliedIffOcrGaveText ==
  (AllScanned /\ OcrOn) =>
     /\ result.ocr_applied <=> OcrTextPages # {}
     /\ Completed =>
          /\ OcrTextPages # {} => result.text_extracted
          /\ \A n \in 1..Len(pages) :
                /\ (\E t \in {"text", "blank"} : InText(PageText(n, t, "ocr")))
                     <=> n \in OcrTextPages
                /\ n \in OcrTextPages => InText(PageText(n, pages[n].ocr, "ocr"))
                /\ n \in ocr_calls \ OcrTextPages => ~InText(Marker(n))

C6_Witness ==
  /\ Completed
  /\ Len(pages) = 2
  /\ AllScanned
  /\ OcrOn
  /\ ocr_calls = {1, 2}
  /\ OcrTextPages = {2}
  /\ result.ocr_applied

\* C7 (as claimed): whichever backend extracts the document, OCR is attempted
\* on a page with empty native text when OCR is enabled and available.
C7_OcrAttemptedOnEveryBackend ==
  \A n \in 1..Len(pages) :
     (StripEmpty(pages[n].native) /\ OcrOn) => n \in ocr_calls

\* C8 (as claimed): with only the text-only backend and extract_images true,
\* the call completes, images_extracted is 0 and the warning about image
\* extraction is in the errors of the result.
C8_PdfplumberImageWarningInErrors ==
  (pc = "returned" /\ pdf.opened /\ ~env.HAS_PYMUPDF /\ args.extract_images
     /\ \A n \in 1..Len(pages) : ~PageFailed(n)) =>
       /\ result.images_extracted = 0
       /\ \E i \in 1..Len(result.errors) :
             result.errors[i] = "Image extraction with pdfplumber is limited"

\* the pages, in increasing order from n on, whose text is non-empty
RECURSIVE PagesWithText(_)
PagesWithText(n) ==
  IF n > Len(pages) THEN <<>>
  ELSE IF Truthy(FinalText(n)) THEN <<n>> \o PagesWithText(n + 1)
  ELSE PagesWithText(n + 1)

RECURSIVE UpTo(_)
UpTo(n) == IF n = 0 THEN <<>> ELSE Append(UpTo(n - 1), n)

\* C9 (as claimed): for a document of n pages the text file holds exactly one
\* marker for each page 1..n, in increasing order.
C9_OneMarkerPerPage ==
  Completed => Markers(disk.text.content) = UpTo(result.total_pages)

\* C9 (amended): when the call completes, the text file holds exactly one
\* marker for each page whose text (native, or the OCR output where the
\* fallback ran) is non-empty, in increasing page order, each followed by that
\* page's text, and no marker for a page whose text is empty; the file is
\* written exactly when some page has text.
C9_OneMarkerPerPageWithText ==
  Completed =>
     /\ Markers(disk.text.content) = PagesWithText(1)
     /\ disk.text.exists <=> PagesWithText(1) # <<>>
     /\ \A i \in 1..Len(disk.text.content) :
           disk.text.content[i].kind = "marker" =>
             /\ i + 2 <= Len(disk.text.content)
             /\ disk.text.content[i + 1] = Newline
             /\ disk.text.content[i + 2].kind = "text"
             /\ disk.text.content[i + 2].page = disk.text.content[i].page

C9_Witness ==
  /\ Completed
  /\ result.total_pages = 2
  /\ result.ocr_applied
  /\ FinalText(1) = "empty"
  /\ Markers(disk.text.content) = <<2>>

\* ---- properties of batch_extract ------------------------------------------------
\* the extraction of d is cut short: it is missing, does not open, or a page raises
DocFails(d) ==
  \/ ~d.exists
  \/ ~d.opens
  \/ \E n \in 1..Len(d.pages) :
        \/ d.pages[n].native = "throw"
        \/ env.HAS_PYMUPDF /\ args.extract_images /\ d.pages[n].get_images = "throw"

\* C10 (as claimed): batch_extract over n documents returns n results, the
\* i-th for the i-th document; a document that cannot be opened has
\* total_pages = 0 and a non-empty error list; every other result is what its
\* document alone yields: equal documents have equal results wherever they
\* stand in the batch, and a document that extracts cleanly has no errors and
\* its own page count.
C10_BatchResultsPerDocument ==
  /\ b_pc # "raised"
  /\ Len(results) <= Len(pdf_files)
  /\ \A i \in 1..Len(results) :
        /\ results[i].pdf_path = i
        /\ (~pdf_files[i].exists \/ ~pdf_files[i].opens) =>
              (results[i].total_pages = 0 /\ results[i].errors # <<>>)
        /\ ~DocFails(pdf_files[i]) =>
              /\ results[i].errors = <<>>
              /\ results[i].total_pages = Len(pdf_files[i].pages)
        /\ \A j \in 1..Len(results) :
              pdf_files[i] = pdf_files[j] =>
                results[i] = [results[j] EXCEPT !.pdf_path = i]
  /\ b_pc = "done" =>
        /\ Len(results) = Len(pdf_files)
        /\ disk.batch_results = [exists |-> TRUE, content |-> results]

\* ---- properties of the markdown parser and of process_pattern -------------------
PatternFields ==
  {"title", "model", "prompt", "size", "difficulty", "materials", "gauge",
   "color_scheme", "pattern_notes", "instructions", "tips"}

\* the keys of the canonical record, and of its objects
SchemaKeys ==
  {"id", "source", "source_id", "title", "type", "category", "difficulty",
   "techniques", "materials", "gauge", "sizing", "instructions", "images",
   "embeddings", "license", "attribution", "date_added", "date_original", "tags",
   "generation_metadata", "notes"}

SchemaComplete(x) ==
  /\ DOMAIN x = SchemaKeys
  /\ DOMAIN x.difficulty = {"level", "score"}
  /\ DOMAIN x.materials = {"yarn_weight", "fiber_content", "yardage", "needle_size",
                           "needle_size_mm", "notions", "colors"}
  /\ DOMAIN x.gauge = {"stitches_per_inch", "stitches_per_10cm", "rows_per_inch",
                       "rows_per_10cm", "swatch_size", "pattern_used", "raw_gauge"}
  /\ DOMAIN x.sizing = {"available_sizes", "size_range"}
  /\ DOMAIN x.instructions = {"format", "sections", "stitch_count", "row_count",
                              "abbreviations_used", "rows", "notes", "tips"}
  /\ DOMAIN x.images = {"preview", "chart", "swatches"}
  /\ DOMAIN x.embeddings = {"text_model", "image_model", "text_vector_path",
                            "image_vector_path"}
  /\ DOMAIN x.generation_metadata = {"model", "prompt"}

\* create_standardized_metadata has returned in this call
Standardized == p_pc \in {"standardized", "saved", "returned"}

\* the call of process_pattern is over
CallOver == p_pc \in {"returned", "raised"}

\* C11 (as claimed): the row numbers of the entries of pattern["instructions"],
\* read in list order, are non-decreasing, whatever order the "### Row N"
\* headers appear in.
C11_RowsNonDecreasing ==
  \A i, j \in 1..Len(parser.pattern.instructions) :
     i <= j => parser.pattern.instructions[i].row <= parser.pattern.instructions[j].row

\* C12 (as claimed): parsing the instructions.md that create_instructions_markdown
\* wrote from a parsed pattern gives the same materials, gauge, color_scheme,
\* pattern_notes, tips and row instructions as the pattern it was written from.
C12_ReparseReproducesLists ==
  \A k \in 1..Len(processed.patterns) :
     LET p == parser.pattern
         r == ParsePatternMarkdown(processed.patterns[k].instructions_md)
     IN  /\ ~r.exc
         /\ r.pattern.materials = p.materials
         /\ r.pattern.gauge = p.gauge
         /\ r.pattern.color_scheme = p.color_scheme
         /\ r.pattern.pattern_notes = p.pattern_notes
         /\ r.pattern.tips = p.tips
         /\ r.pattern.instructions = p.instructions

\* C13 (as claimed): in the record create_standardized_metadata returns,
\* difficulty.score is 0.2 when difficulty.level is "beginner" and 0.5 for
\* every other level.
C13_ScoreFollowsLevel ==
  Standardized =>
     metadata.difficulty.score =
       (IF metadata.difficulty.level = <<"beginner">> THEN "0.2" ELSE "0.5")

\* C14 (as claimed): parse_pattern_markdown never raises, whatever the lines;
\* its record has the eleven fields, and before any line has set a field the
\* fields hold their empty defaults.
C14_ParserNeverRaises ==
  /\ ~parser.exc
  /\ DOMAIN parser.pattern = PatternFields
  /\ n_lines = 0 => parser.pattern = NewPattern

\* C19 (as claimed): once a call of process_pattern is over, every pattern
\* directory it made holds preview.png iff an image lay next to the markdown
\* file, and its metadata.json names "preview.png" in exactly that case and
\* null otherwise; and no call fails for want of an image.
C19_PreviewIffSourceImage ==
  CallOver =>
     /\ \A k \in 1..Len(processed.patterns) :
           LET d == processed.patterns[k]
           IN  /\ d.preview <=> HasImage(md_file.image)
               /\ d.metadata_json.images.preview =
                    (IF HasImage(md_file.image) THEN "preview.png" ELSE "None")
     /\ (p_pc = "raised" /\ processed.patterns # <<>>) => HasImage(md_file.image)

\* C20: the record create_standardized_metadata returns has every key of the
\* schema, and a non-empty title and difficulty.level: both in the record
\* process_pattern gets, and for the pattern as the parser returns it (before
\* the title fallback), with or without an image.
C20_SchemaCompleteWithDefaults ==
  /\ Standardized =>
        /\ SchemaComplete(metadata)
        /\ metadata.title # <<>>
        /\ metadata.difficulty.level # <<>>
  /\ (p_pc = "parse" /\ ~MetadataRaises(parser.pattern)) =>
        \A image \in ImageKinds :
           LET x == CreateStandardizedMetadata(
                      parser.pattern, Stem(md_file.stem),
                      ImageFile(Stem(md_file.stem), image), Uuid4(processed))
           IN  /\ SchemaComplete(x)
               /\ x.title # <<>>
               /\ x.difficulty.level # <<>>

\* a document without a single field: the title comes from the file name
\* and the level is the default
C20_Witness ==
  /\ p_pc = "standardized"
  /\ parser.pattern = [NewPattern EXCEPT !.title = StemTitle(md_file.stem)]
  /\ metadata.title = <<"Pattern", "1">>
  /\ metadata.difficulty.level = <<"beginner">>
  /\ MetadataTitle(NewPattern, 1) = <<"Generated", "Pattern", "1">>

\* ---- properties of update_master_catalog and main ------------------------------
\* the elements of a sequence
Range(seq) == {seq[k] : k \in 1..Len(seq)}

RECURSIVE SumCounts(_, _)
SumCounts(f, S) ==
  IF S = {} THEN 0
  ELSE LET s == CHOOSE x \in S : TRUE IN f[s] + SumCounts(f, S \ {s})

\* the catalog file as a reader finds it: no file, no entries
Catalog == processed.index.catalog

CatalogIds == [k \in 1..Len(Catalog.patterns) |-> Catalog.patterns[k].id]

\* C15: update_master_catalog over n records writes total_patterns = n and n
\* summaries, the k-th with the id, title and source of the k-th record; the
\* counts of sources add up to n and sources[s] is the number of records of
\* source s.
C15_CatalogCountsAndOrder ==
  m_pc = "done" =>
     /\ processed.index.exists
     /\ Catalog.total_patterns = Len(all_metadata)
     /\ Len(Catalog.patterns) = Len(all_metadata)
     /\ \A k \in 1..Len(all_metadata) :
           /\ Catalog.patterns[k].id = all_metadata[k].id
           /\ Catalog.patterns[k].title = all_metadata[k].title
           /\ Catalog.patterns[k].source = all_metadata[k].source
     /\ DOMAIN Catalog.sources = {m.source : m \in Range(all_metadata)}
     /\ \A s \in DOMAIN Catalog.sources :
           Catalog.sources[s] =
             Cardinality({k \in 1..Len(all_metadata) : all_metadata[k].source = s})
     /\ SumCounts(Catalog.sources, DOMAIN Catalog.sources) = Len(all_metadata)

\* two records of one source, and the catalog counts both
C15_Witness ==
  /\ m_pc = "done"
  /\ Len(all_metadata) = 2
  /\ all_metadata[1].source = all_metadata[2].source
  /\ all_metadata[1].title # all_metadata[2].title
  /\ Catalog.sources[all_metadata[1].source] = 2

\* C16 (as claimed): after every run of main the catalog lists exactly the
\* pattern directories that exist under processed/patterns, and
\* total_patterns is their number.
C16_CatalogCoversAllDirectories ==
  m_pc = "done" =>
     /\ Range(CatalogIds) = {d.id : d \in Range(processed.patterns)}
     /\ Catalog.total_patterns = Len(processed.patterns)

\* C17 (as claimed): after every run of main the catalog holds exactly the
\* records of that run, also when the run processed no document successfully.
C17_RunReplacesCatalog ==
  m_pc = "done" =>
     /\ CatalogIds = [k \in 1..Len(all_metadata) |-> all_metadata[k].id]
     /\ Catalog.total_patterns = Len(all_metadata)

\* process_pattern returns a record for the document
DocReturns(doc) ==
  /\ doc.read = "ok"
  /\ doc.image # "uncopyable"
  /\ ~ParsePatternMarkdown(doc.lines).exc
  /\ ~MetadataRaises(ParsePatternMarkdown(doc.lines).pattern)

\* the file names the documents of the listing that return a record produce
ReturningStems ==
  LET fs == SelectSeq(raw_dir.md_files, DocReturns)
  IN  [k \in 1..Len(fs) |-> Stem(fs[k].stem)]

\* C18: main never leaves its loop by an exception; it attempts the documents
\* of the listing in order, each once, and when the loop is over all of them
\* were attempted, all_metadata holds the records of exactly the documents
\* whose processing returned one, and the catalog it then writes lists
\* exactly these.
C18_EveryDocumentAttemptedOnce ==
  /\ m_pc \in {"idle", "loop", "done", "returned 1"}
  /\ m_pc \in {"loop", "done"} =>
        /\ Len(stdout) <= Len(raw_dir.md_files)
        /\ \A k \in 1..Len(stdout) : stdout[k] = raw_dir.md_files[k].stem
  /\ m_pc = "done" =>
        /\ Len(stdout) = Len(raw_dir.md_files)
        /\ [k \in 1..Len(all_metadata) |-> all_metadata[k].source_id] = ReturningStems
        /\ all_metadata # <<>> =>
              /\ processed.index.exists
              /\ Catalog.total_patterns = Len(all_metadata)
              /\ [k \in 1..Len(Catalog.patterns) |->
                    processed.patterns[Catalog.patterns[k].id].metadata_json.source_id]
                 = ReturningStems

\* the first document raises, the second is processed and is the catalog
C18_Witness ==
  /\ m_pc = "done"
  /\ Len(raw_dir.md_files) = 2
  /\ ~DocReturns(raw_dir.md_files[1])
  /\ DocReturns(raw_dir.md_files[2])
  /\ stdout = <<raw_dir.md_files[1].stem, raw_dir.md_files[2].stem>>
  /\ Len(all_metadata) = 1
  /\ Catalog.total_patterns = 1

\* ---- properties of the line loop ----------------------------------------------
\* the parser is between two lines of a document
Parsing == p_pc = "parse"

\* "### Row" followed by a number that int() converts
IsRowNumber(line) == line.kind = "row" /\ line.key = "int"

\* C21: every entry of pattern["instructions"] has a row number >= 1, which is
\* the number of the last "### Row N" header before its line: a "Work " line
\* adds an entry with the current row or none, it adds none while no row
\* header was seen or the last one was "### Row 0", and the current row is
\* the number of the last such header.
C21_InstructionsCarryCurrentRow ==
  Parsing =>
    /\ \A k \in 1..Len(parser.pattern.instructions) :
         parser.pattern.instructions[k].row >= 1
    /\ \A line \in Lines :
         LET after == ParseLine(parser, line)
             old == parser.pattern.instructions
             new == after.pattern.instructions
         IN  ~after.exc =>
               /\ \/ new = old
                  \/ /\ parser.current_row.set
                     /\ parser.current_row.n >= 1
                     /\ new = Append(old, [row |-> parser.current_row.n,
                                           instruction |-> line.text])
               /\ (~parser.current_row.set \/ parser.current_row.n = 0) => new = old
               /\ IsRowNumber(line) => after.current_row = Row(line.num)
               /\ ~IsRowNumber(line) => after.current_row = parser.current_row

\* an instruction of row 1 was recorded, then "### Row 0" came and the lines
\* after it added nothing
C21_Witness ==
  /\ Parsing
  /\ parser.current_section = "instructions"
  /\ parser.current_row = Row(0)
  /\ parser.pattern.instructions = <<[row |-> 1, instruction |-> <<"Work knit">>]>>
  /\ n_lines >= 5

\* a non-empty line that does not start with "#"
NonHeadingLine(line) ==
  \/ line.kind \in {"field", "bullet"}
  \/ line.kind = "text" /\ line.text # <<>>

\* C22 (as claimed): while the section is gauge, every non-empty line that
\* does not start with "#", a "- " bullet included, is appended to the gauge
\* string: the gauge grows by the line.
C22_GaugeTakesEveryPlainLine ==
  Parsing /\ parser.current_section = "gauge" =>
    \A line \in Lines :
      NonHeadingLine(line) =>
        LET before == parser.pattern.gauge
            gauge == ParseLine(parser, line).pattern.gauge
        IN  /\ Len(gauge) > Len(before)
            /\ SubSeq(gauge, 1, Len(before)) = before
            /\ line.kind = "text" => gauge = before \o line.text

\* the keywords in the order the claim tests them, and the state of each
KeywordOrder ==
  <<{"material"}, {"gauge"}, {"color"}, {"note"}, {"instruction", "row"}, {"tip"}>>

StateOrder == <<"materials", "gauge", "colors", "notes", "instructions", "tips">>

FirstMatch(words) ==
  LET hits == {k \in DOMAIN KeywordOrder : KeywordOrder[k] \cap words # {}}
  IN  IF hits = {} THEN "None"
      ELSE StateOrder[CHOOSE k \in hits : \A j \in hits : k <= j]

\* C23: a "## " heading sets the section to the state of the first keyword,
\* in the order material, gauge, color, note, instruction or row, tip, that
\* occurs in it, and to None when none occurs, whatever the section was, and
\* changes nothing else; while the section is None, bullets and text lines
\* (gauge and instruction lines) record nothing.
C23_HeadingAloneSelectsSection ==
  Parsing =>
    \A line \in Lines :
      LET after == ParseLine(parser, line)
      IN  /\ line.kind = "heading" =>
                after = [parser EXCEPT !.current_section = FirstMatch(line.words)]
          /\ (parser.current_section = "None" /\ line.kind \in {"bullet", "text"}) =>
                after = parser

\* a heading without a keyword closed the materials section, and the lines
\* after it recorded nothing
C23_Witness ==
  /\ Parsing
  /\ parser.current_section = "None"
  /\ parser.pattern = [NewPattern EXCEPT !.materials = <<PlainItem(<<"yarn">>)>>]
  /\ n_lines >= 5

\* C24: a "### Row N" header changes the current row and nothing else (the
\* section and the eleven fields stay), and no other line changes the
\* current row. A header whose number int() does not convert raises and
\* returns no record; the statement is about the lines that are handled.
C24_RowHeaderChangesOnlyCurrentRow ==
  Parsing =>
    \A line \in Lines :
      LET after == ParseLine(parser, line)
      IN  ~after.exc =>
            /\ line.kind = "row" =>
                  /\ after.current_section = parser.current_section
                  /\ after.pattern = parser.pattern
            /\ line.kind # "row" => after.current_row = parser.current_row

\* row 1 was set under the instructions section and is still the current row
\* in the tips section, where a bullet was recorded
C24_Witness ==
  /\ Parsing
  /\ parser.current_row = Row(1)
  /\ parser.current_section = "tips"
  /\ parser.pattern.instructions # <<>>
  /\ parser.pattern.tips # <<>>

\* what differs between two parser states: fields, the section, the current row
Changed(a, b) ==
  {f \in PatternFields : a.pattern[f] # b.pattern[f]}
  \cup (IF a.current_section # b.current_section THEN {"current_section"} ELSE {})
  \cup (IF a.current_row # b.current_row THEN {"current_row"} ELSE {})

\* the field a "- **Key**:" line sets
FieldOf(key) ==
  CASE key = "Model" -> "model"
    [] key = "Prompt" -> "prompt"
    [] key = "Size" -> "size"
    [] key = "Difficulty" -> "difficulty"

\* C25: a line changes at most one of: one field of the record, the section,
\* the current row; and a "- **Model**:", "- **Prompt**:", "- **Size**:" or
\* "- **Difficulty**:" line sets its field (the prompt without its quotes, the
\* difficulty in lower case) in every section, and changes no list.
C25_OneRulePerLine ==
  Parsing =>
    \A line \in Lines :
      LET after == ParseLine(parser, line)
      IN  ~after.exc =>
            /\ Cardinality(Changed(parser, after)) <= 1
            /\ line.kind = "field" =>
                  /\ Changed(parser, after) \subseteq {FieldOf(line.key)}
                  /\ after.pattern[FieldOf(line.key)] =
                       (IF line.key = "Prompt" THEN StripQuotes(line.text)
                        ELSE IF line.key = "Difficulty" THEN Lower(line.text)
                        ELSE line.text)

\* under the materials section, after a bullet, a size line set the size and
\* the list has the bullet only
C25_Witness ==
  /\ Parsing
  /\ parser.current_section = "materials"
  /\ parser.pattern =
       [NewPattern EXCEPT !.materials = <<PlainItem(<<"yarn">>)>>,
                          !.size = <<"large">>,
                          !.model = <<"gpt2">>]

\* C26: under the colors section a bullet appends one {name, hex} entry when
\* its content has the shape "Color k: Name (#HEX)" and nothing otherwise,
\* and changes nothing else of the parser: color_scheme is the matching
\* bullets in document order, and materials, notes and tips stay.
C26_ColorBulletsAppendIffMatch ==
  Parsing /\ parser.current_section = "colors" =>
    \A line \in Lines :
      line.kind = "bullet" =>
        ParseLine(parser, line) =
          [parser EXCEPT !.pattern.color_scheme =
             IF line.item.name # ""
             THEN Append(@, [name |-> line.item.name, hex |-> line.item.hex])
             ELSE @]

\* two colour bullets were recorded in the colors section, and the bullet
\* recorded earlier under materials is all that materials holds
C26_Witness ==
  /\ Parsing
  /\ parser.current_section = "colors"
  /\ Len(parser.pattern.color_scheme) = 2
  /\ parser.pattern.materials = <<PlainItem(<<"yarn">>)>>
  /\ parser.pattern.pattern_notes = <<>>
  /\ parser.pattern.tips = <<>>

\* the numbers W and H at the start of a size "WxH...", <<0, 0>> without them
SizeNumbers(size) ==
  IF size = <<>> THEN <<0, 0>>
  ELSE CASE Head(size) = "2x3" -> <<2, 3>>
         [] Head(size) = "0x3" -> <<0, 3>>
         [] OTHER -> <<0, 0>>

\* C27: in the record create_standardized_metadata returns, stitch_count and
\* row_count are W and H of a size that starts with "WxH", and both are 0
\* for every other size, the empty one included: the two counts are always
\* the two numbers of one match, or both the default.
\* A size whose number int() does not convert raises and returns no record.
C27_CountsFromSize ==
  Standardized =>
    <<metadata.instructions.stitch_count, metadata.instructions.row_count>>
      = SizeNumbers(parser.pattern.size)

\* the record of a document with the size "2x3 stitches"
C27_Witness ==
  /\ Standardized
  /\ parser.pattern.size = <<"2x3", "stitches">>
  /\ metadata.instructions.stitch_count = 2
  /\ metadata.instructions.row_count = 3

\* ---- properties of the document-level metadata and of the image count -----------
\* extract has returned the result of a document that the backend opened
ReturnedOpened == pc = "returned" /\ pdf.opened

\* the page loop of the rich backend is over and the metadata are next
BeforeMetadata == pc = "pages" /\ env.HAS_PYMUPDF /\ Len(pages) = pdf.npages

\* C28 (as claimed): for every document that opens, the metadata of the
\* returned result is a map, and when the metadata extraction fails it is
\* the empty map while every other field of the result and the written text
\* are what they are when it succeeds.
C28_MetadataIsAlwaysAMap ==
  /\ ReturnedOpened => result.metadata \in {"full", "empty"}
  /\ BeforeMetadata =>
       LET ok == PymupdfFinish(Frame, TRUE)
           failed == PymupdfFinish(Frame, FALSE)
       IN  /\ failed.result = [ok.result EXCEPT !.metadata = "empty"]
           /\ failed.disk = ok.disk

\* ---- properties of process_patterns ---------------------------------------------
\* the directories taken so far that satisfy a test
Taken(Test(_)) ==
  {k \in 1..Len(pattern_dirs.taken) : Test(pattern_dirs.taken[k])}

WasSkipped(d) == AlreadyEmbedded(d, skip_existing) /\ ~d.result.called
HadErrors(d) == d.result.called /\ d.result.errors # <<>>
HadNoErrors(d) == d.result.called /\ d.result.errors = <<>>

\* the messages of the directories k.. of a list, in order
RECURSIVE ErrorsFrom(_, _)
ErrorsFrom(dirs, k) ==
  IF k > Len(dirs) THEN <<>>
  ELSE dirs[k].result.errors \o ErrorsFrom(dirs, k + 1)

\* C29 (as claimed): process_patterns takes every pattern directory once and
\* no directory makes it abort; when it returns, processed + skipped + failed
\* is the number of directories found; with skip_existing a directory that
\* holds a text or an image embedding is counted as skipped and embed_pattern
\* is not called on it; a directory whose result has errors is counted as
\* failed and its messages are in the errors of the summary.
C29_BatchAttemptsEveryDirectory ==
  /\ e_pc # "raised"
  /\ e_pc = "returned" =>
        /\ Len(pattern_dirs.taken) = pattern_dirs.found
        /\ e_results.processed + e_results.skipped + e_results.failed
             = pattern_dirs.found
  /\ e_pc \in {"loop", "returned"} =>
        /\ \A k \in 1..Len(pattern_dirs.taken) :
             LET d == pattern_dirs.taken[k]
             IN  AlreadyEmbedded(d, skip_existing) <=> ~d.result.called
        /\ e_results.skipped = Cardinality(Taken(WasSkipped))
        /\ e_results.failed = Cardinality(Taken(HadErrors))
        /\ e_results.processed = Cardinality(Taken(HadNoErrors))
        /\ e_results.errors = ErrorsFrom(pattern_dirs.taken, 1)

\* ---- the image count of extract ---------------------------------------------------
\* C30 (as claimed): in every result extract returns, images_extracted is
\* the number of image files the call wrote, also when an exception cut the
\* extraction short after images were written.
C30_ImagesExtractedCountsFiles ==
  pc = "returned" => result.images_extracted = Cardinality(disk.images)

====
